---- MODULE Spec2Model ----
(***************************************************************************)
(* Model of the monotonic-clock crate: the InnerClock stopwatch            *)
(* (src/src/clock.rs), the Clock handle that shares it behind              *)
(* Arc<RwLock<..>>, and the Epoch value (src/src/epoch.rs).                *)
(*                                                                         *)
(* Instants and durations are natural numbers of abstract time units.      *)
(* Every handle method is three steps of its owner: Call, Acquire (the     *)
(* RwLock read()/write()), and the body, which runs the InnerClock method  *)
(* under the guard and drops the guard.  MonotonicClock::time is two such  *)
(* reads in a row, now() and then epoch().                                 *)
(***************************************************************************)
EXTENDS Integers, Sequences, FiniteSets, TLC

\* ---- bounds -------------------------------------------------------------
MaxTime == 2        \* the monotonic source is observed on 0..MaxTime
MaxWall == 1        \* the wall clock reads -1 (before UNIX_EPOCH) .. MaxWall
MaxDuration == 5    \* Duration::MAX, scaled down: a Duration is in 0..MaxDuration

\* The clones of the Clock handle, one per thread.
Owners == {1, 2}
WallTimes == (-1)..MaxWall

\* ---- Option<T> -----------------------------------------------------------
None == <<>>
Some(x) == <<x>>

\* ---- std::time -----------------------------------------------------------
\* A Duration cannot be negative: a subtraction whose result would be is
\* marked Underflow (Duration - Duration panics; Instant - Instant saturates
\* or panics depending on the toolchain).
Underflow == -1

\* Instant::duration_since, Instant - Instant
DurationSince(later, earlier) ==
    IF later >= earlier THEN later - earlier ELSE Underflow

\* Instant::checked_duration_since
CheckedDurationSince(later, earlier) ==
    IF later >= earlier THEN Some(later - earlier) ELSE None

VARIABLES
    mono,        \* reading of the monotonic source (Instant::now())
    inner,       \* the InnerClock: [epoch, start, stop]
    poisoned,    \* the RwLock's poison flag
    pc,          \* per owner: "idle", "waiting" (in read()/write()), "locked"
    op,          \* per owner: the method being run
    tmp,         \* per owner: the now() half of a running time() call, and
                 \* (history) the epoch stored when that half ran
    lastRet,     \* the value a handle method returns in this step, if any
    wallRead,    \* what SystemTime::now() reported in this step, if read
    before,      \* the InnerClock a mutating method found, in the step it returns
    prevRead,    \* prevNow as a now() found it, in the step it returns
    snap,        \* tmp as the second half of time() found it, in that step
    \* history of what the callers have observed
    stopRet,     \* what the stop() that stopped the clock returned, and to whom
    frozenRead,  \* the first now() read since the clock was stopped
    prevNow,     \* the last now() read: its value, what has been called
                 \* since, and (until the next mutating call) when it was read
    resumeFloor, \* E and P of the last resume(), until the next mutating call
    epochCaptured, \* the wall reading captured by new() or by the last reset()
    \* a free-standing Epoch value and the arithmetic done on it
    epochVal,    \* the Epoch
    epRet        \* the last operator applied to it: operands and outcome

vars == <<mono, inner, poisoned, pc, op, tmp, lastRet, wallRead, before,
          prevRead, snap, stopRet, frozenRead, prevNow, resumeFloor,
          epochCaptured, epochVal, epRet>>
hist == <<stopRet, frozenRead, prevNow, resumeFloor, epochCaptured>>

Mutators == {"start", "stop", "reset", "resume"}
Readers == {"now", "epoch", "is_ticking", "time_now", "time_epoch"}
Methods == Mutators \cup {"now", "epoch", "is_ticking", "time"}

\* ---- Epoch ---------------------------------------------------------------
\* Epoch::from_unix: SystemTime::now().duration_since(UNIX_EPOCH).unwrap();
\* None stands for the panic of unwrap().
FromUnix(w) == IF w >= 0 THEN Some(w) ELSE None

\* ---- Duration -------------------------------------------------------------
Durations == 0..MaxDuration

\* ---- returned values ----------------------------------------------------
\* tag: "unit" (), "dur" Duration, "some"/"none" Option<Duration>,
\* "bool", "epoch" Epoch, "panic" the call unwound.
Ret(tag, val) == [tag |-> tag, val |-> val]
Unit == Ret("unit", 0)
Panic == Ret("panic", 0)
OptRet(o) == IF o = None THEN Ret("none", 0) ELSE Ret("some", o[1])

\* ---- Duration and Epoch operators ------------------------------------------
\* Duration + Duration panics when the sum exceeds Duration::MAX
DurationAdd(a, b) == IF a + b <= MaxDuration THEN Ret("dur", a + b) ELSE Panic

\* Duration::saturating_sub in place of -
DurationSub_Saturating(a, b) == IF b <= a THEN Ret("dur", a - b) ELSE Ret("dur", 0)

\* Duration - Duration panics when the right operand is the larger
DurationSub(a, b) == IF b <= a THEN Ret("dur", a - b) ELSE Panic

AddOps == {"add", "add_duration", "add_assign", "add_assign_duration"}
SubOps == {"sub", "sub_duration", "sub_assign", "sub_assign_duration"}
AssignOps == {"add_assign", "add_assign_duration",
              "sub_assign", "sub_assign_duration"}

\* impl Add / Add<Duration> / AddAssign / AddAssign<Duration> for Epoch
EpochAdd(a, b) == DurationAdd(a, b)

\* impl Sub / Sub<Duration> / SubAssign / SubAssign<Duration> for Epoch
EpochSub(a, b) == DurationSub(a, b)

EpochApply(o, a, b) == IF o \in AddOps THEN EpochAdd(a, b) ELSE EpochSub(a, b)

\* ---- InnerClock ----------------------------------------------------------
\* Each method maps the state and the instants it reads to the new state and
\* the returned value.

InnerNew(w, nowI) == [epoch |-> FromUnix(w)[1], start |-> nowI, stop |-> None]

\* reset() that forgets to recapture the epoch
InnerReset_KeepEpoch(s, w, nowI) ==
    IF FromUnix(w) = None
    THEN [inner |-> s, ret |-> Panic]
    ELSE [inner |-> [epoch |-> s.epoch, start |-> nowI, stop |-> None],
          ret |-> Unit]

\* reset() that rebases start and stop before it captures the epoch
InnerReset_StartFirst(s, w, nowI) ==
    IF FromUnix(w) = None
    THEN [inner |-> [s EXCEPT !.start = nowI, !.stop = None], ret |-> Panic]
    ELSE [inner |-> [epoch |-> FromUnix(w)[1], start |-> nowI, stop |-> None],
          ret |-> Unit]

InnerReset(s, w, nowI) ==
    IF FromUnix(w) = None
    THEN [inner |-> s, ret |-> Panic]
    ELSE [inner |-> [epoch |-> FromUnix(w)[1], start |-> nowI, stop |-> None],
          ret |-> Unit]

\* start() that clears the stop marker without rebasing
InnerStart_KeepStart(s, nowI) ==
    [inner |-> [s EXCEPT !.stop = None],
     ret |-> Unit]

\* start() that also zeroes the epoch (Epoch::from_zero)
InnerStart_ZeroEpoch(s, nowI) ==
    [inner |-> [s EXCEPT !.start = nowI, !.stop = None, !.epoch = 0],
     ret |-> Unit]

\* start() that rebases without clearing the stop marker
InnerStart_KeepStop(s, nowI) ==
    [inner |-> [s EXCEPT !.start = nowI],
     ret |-> Unit]

InnerStart(s, nowI) ==
    [inner |-> [s EXCEPT !.start = nowI, !.stop = None],
     ret |-> Unit]

\* resume() that advances start by the pause, excluding it from elapsed time
InnerResume_Rebase(s, nowI) ==
    IF s.stop # None
    THEN [inner |-> [s EXCEPT !.stop = None,
                              !.start = s.start + (nowI - s.stop[1])],
          ret |-> OptRet(CheckedDurationSince(nowI, s.stop[1]))]
    ELSE [inner |-> s, ret |-> OptRet(Some(0))]

\* resume() that rebases like start()
InnerResume_AsStart(s, nowI) ==
    [inner |-> [s EXCEPT !.stop = None, !.start = nowI],
     ret |-> IF s.stop # None
             THEN OptRet(CheckedDurationSince(nowI, s.stop[1]))
             ELSE OptRet(Some(0))]

\* resume() that returns the running time when the clock is not stopped
InnerResume_Elapsed(s, nowI) ==
    IF s.stop # None
    THEN [inner |-> [s EXCEPT !.stop = None],
          ret |-> OptRet(CheckedDurationSince(nowI, s.stop[1]))]
    ELSE [inner |-> s, ret |-> OptRet(CheckedDurationSince(nowI, s.start))]

\* resume() with the operands of checked_duration_since exchanged
InnerResume_Swapped(s, nowI) ==
    IF s.stop # None
    THEN [inner |-> [s EXCEPT !.stop = None],
          ret |-> OptRet(CheckedDurationSince(s.stop[1], nowI))]
    ELSE [inner |-> s, ret |-> OptRet(Some(0))]

\* resume() that returns the time since start, not since stop
InnerResume_SinceStart(s, nowI) ==
    IF s.stop # None
    THEN [inner |-> [s EXCEPT !.stop = None],
          ret |-> OptRet(CheckedDurationSince(nowI, s.start))]
    ELSE [inner |-> s, ret |-> OptRet(Some(0))]

InnerResume(s, nowI) ==
    IF s.stop # None
    THEN [inner |-> [s EXCEPT !.stop = None],
          ret |-> OptRet(CheckedDurationSince(nowI, s.stop[1]))]
    ELSE [inner |-> s, ret |-> OptRet(Some(0))]

\* stop() without the is_none() test: every call moves the stop instant
InnerStop_Restamp(s, nowI) ==
    [inner |-> [s EXCEPT !.stop = Some(nowI)],
     ret |-> OptRet(Some(DurationSince(nowI, s.start)))]

\* stop() that returns the time since start up to the call, not up to stop
InnerStop_RetNow(s, nowI) ==
    [inner |-> IF s.stop = None THEN [s EXCEPT !.stop = Some(nowI)] ELSE s,
     ret |-> OptRet(Some(DurationSince(nowI, s.start)))]

InnerStop(s, nowI) ==
    LET s2 == IF s.stop = None THEN [s EXCEPT !.stop = Some(nowI)] ELSE s
    IN  [inner |-> s2,
         ret |-> IF s2.stop = None THEN OptRet(None)
                 ELSE OptRet(Some(DurationSince(s2.stop[1], s2.start)))]

\* now() without the stop branch
InnerNow_Live(s, nowI) == DurationSince(nowI, s.start)

\* now() whose running branch keeps only the low bit of the elapsed time
InnerNow_Wrap(s, nowI) ==
    IF s.stop # None
    THEN DurationSince(s.stop[1], s.start)
    ELSE DurationSince(nowI, s.start) % 2

\* now() whose running branch truncates the elapsed time to whole pairs of units
InnerNow_Trunc(s, nowI) ==
    IF s.stop # None
    THEN DurationSince(s.stop[1], s.start)
    ELSE (DurationSince(nowI, s.start) \div 2) * 2

InnerNow(s, nowI) ==
    IF s.stop # None
    THEN DurationSince(s.stop[1], s.start)
    ELSE DurationSince(nowI, s.start)

\* is_ticking() with the test inverted
InnerIsTicking_Inverted(s) == s.stop # None

InnerIsTicking(s) == s.stop = None

InnerEpoch(s) == s.epoch

\* MonotonicClock::time, from the two values it reads: self.now() + *self.epoch()
TimeOf(nowVal, e) == nowVal + e

\* ---- the RwLock ----------------------------------------------------------
WriteHeld == \E u \in Owners : pc[u] = "locked" /\ op[u] \in Mutators
ReadHeld == \E u \in Owners : pc[u] = "locked" /\ op[u] \in Readers

\* write() that waits for a writer only, not for readers
CanAcquire_IgnoreReaders(t) == ~WriteHeld

\* RwLock::write() / RwLock::read() can return
CanAcquire(t) ==
    IF op[t] \in Mutators THEN ~WriteHeld /\ ~ReadHeld ELSE ~WriteHeld

\* ---- initial state: Clock::new() ------------------------------------------
NoOp == "none"
NoTmp == [now |-> 0, epochThen |-> 0]
NoRet == [op |-> NoOp, by |-> 0, tag |-> "unit", val |-> 0]

NoEpRet == [op |-> NoOp, lhs |-> 0, rhs |-> 0, tag |-> "unit", val |-> 0]

\* Clock::new()
ClockInit ==
    /\ mono = 0
    /\ \E w \in WallTimes \ {-1} :
          /\ inner = InnerNew(w, mono)
          /\ wallRead = Some(w)
          /\ epochCaptured = w
    /\ before = None
    /\ prevRead = None
    /\ snap = None
    /\ poisoned = FALSE
    /\ pc = [t \in Owners |-> "idle"]
    /\ op = [t \in Owners |-> NoOp]
    /\ tmp = [t \in Owners |-> NoTmp]
    /\ lastRet = NoRet
    /\ stopRet = None
    /\ frozenRead = None
    /\ prevNow = None
    /\ resumeFloor = None

Init ==
    /\ ClockInit
    /\ epochVal = 0
    /\ epRet = NoEpRet

\* ---- environment ---------------------------------------------------------
\* A step in which no method returns.
Silent ==
    /\ lastRet' = NoRet /\ wallRead' = None /\ before' = None
    /\ prevRead' = None /\ snap' = None
    /\ UNCHANGED <<epochVal, epRet>>

\* The monotonic source advances.
Tick ==
    /\ mono < MaxTime
    /\ mono' = mono + 1
    /\ Silent
    /\ UNCHANGED <<inner, poisoned, pc, op, tmp, hist>>

\* ---- handle methods ------------------------------------------------------
\* a method that never drops its guard
Returned_KeepGuard(t, m, r, w) ==
    /\ before' = IF m \in Mutators /\ r.tag # "panic" THEN Some(inner) ELSE None
    /\ pc' = pc
    /\ op' = op
    /\ lastRet' = [op |-> m, by |-> t, tag |-> r.tag, val |-> r.val]
    /\ wallRead' = w
    /\ snap' = IF m = "time" /\ r.tag # "panic" THEN Some(tmp[t]) ELSE None
    /\ UNCHANGED <<epochVal, epRet>>

Returned(t, m, r, w) ==
    /\ before' = IF m \in Mutators /\ r.tag # "panic" THEN Some(inner) ELSE None
    /\ pc' = [pc EXCEPT ![t] = "idle"]
    /\ op' = [op EXCEPT ![t] = NoOp]
    /\ lastRet' = [op |-> m, by |-> t, tag |-> r.tag, val |-> r.val]
    /\ wallRead' = w
    /\ snap' = IF m = "time" /\ r.tag # "panic" THEN Some(tmp[t]) ELSE None
    /\ UNCHANGED <<epochVal, epRet>>

\* An owner calls a method and reaches self.inner.write() / self.inner.read().
Call(t, m) ==
    /\ pc[t] = "idle"
    /\ pc' = [pc EXCEPT ![t] = "waiting"]
    /\ op' = [op EXCEPT ![t] = IF m = "time" THEN "time_now" ELSE m]
    /\ Silent
    /\ UNCHANGED <<mono, inner, poisoned, tmp, hist>>

MethodOf(o) == IF o \in {"time_now", "time_epoch"} THEN "time" ELSE o

\* write()/read() returns; unwrap() panics when the lock is poisoned, and the
\* guard carried by the error is dropped.
Acquire(t) ==
    /\ pc[t] = "waiting"
    /\ CanAcquire(t)
    /\ IF poisoned
       THEN /\ Returned(t, MethodOf(op[t]), Panic, None)
            /\ prevRead' = None
            /\ tmp' = [tmp EXCEPT ![t] = NoTmp]
       ELSE /\ pc' = [pc EXCEPT ![t] = "locked"]
            /\ Silent
            /\ UNCHANGED <<op, tmp>>
    /\ UNCHANGED <<mono, inner, poisoned, hist>>

\* What has been called since the last now() read: nothing that mutates
\* ("none"), only stop() and resume() ("paused"), or a start() or reset()
\* ("rebased").
Since(o, what) ==
    IF o = None THEN None
    ELSE Some([o[1] EXCEPT
                 !.since = IF @ = "rebased" \/ what = "rebased"
                           THEN "rebased" ELSE what,
                 !.at = None])

\* Clock::start
DoStart(t) ==
    /\ pc[t] = "locked" /\ op[t] = "start"
    /\ LET r == InnerStart(inner, mono) IN
        /\ inner' = r.inner
        /\ Returned(t, "start", r.ret, None)
        /\ prevRead' = None
    /\ stopRet' = None /\ frozenRead' = None /\ resumeFloor' = None
    /\ prevNow' = Since(prevNow, "rebased")
    /\ UNCHANGED <<mono, poisoned, tmp, epochCaptured>>

\* Clock::reset; a panic inside the guard poisons the lock.
DoReset(t) ==
    /\ pc[t] = "locked" /\ op[t] = "reset"
    /\ \E w \in WallTimes : LET r == InnerReset(inner, w, mono) IN
        /\ inner' = r.inner
        /\ Returned(t, "reset", r.ret, Some(w))
        /\ prevRead' = None
        /\ poisoned' = (r.ret.tag = "panic")
        /\ IF r.ret.tag = "panic"
           THEN UNCHANGED hist
           ELSE /\ stopRet' = None /\ frozenRead' = None
                /\ resumeFloor' = None
                /\ prevNow' = Since(prevNow, "rebased")
                /\ epochCaptured' = w
    /\ UNCHANGED <<mono, tmp>>

\* Clock::stop
DoStop(t) ==
    /\ pc[t] = "locked" /\ op[t] = "stop"
    /\ LET r == InnerStop(inner, mono) IN
        /\ inner' = r.inner
        /\ Returned(t, "stop", r.ret, None)
        /\ prevRead' = None
        /\ stopRet' = IF inner.stop = None
                      THEN (IF r.ret.tag = "some"
                            THEN Some([val |-> r.ret.val, by |-> t]) ELSE None)
                      ELSE stopRet
    /\ frozenRead' = IF inner.stop = None THEN None ELSE frozenRead
    /\ prevNow' = Since(prevNow, "paused")
    /\ resumeFloor' = None
    /\ UNCHANGED <<mono, poisoned, tmp, epochCaptured>>

\* Clock::resume.  For a stopped clock the history keeps E, the value stop()
\* returned, and P, the monotonic time since the recorded stop instant.
DoResume(t) ==
    /\ pc[t] = "locked" /\ op[t] = "resume"
    /\ LET r == InnerResume(inner, mono) IN
        /\ inner' = r.inner
        /\ Returned(t, "resume", r.ret, None)
        /\ prevRead' = None
    /\ resumeFloor' = IF inner.stop # None /\ stopRet # None
                      THEN Some([e |-> stopRet[1].val,
                                 p |-> mono - inner.stop[1]])
                      ELSE None
    /\ stopRet' = None /\ frozenRead' = None
    /\ prevNow' = Since(prevNow, "paused")
    /\ UNCHANGED <<mono, poisoned, tmp, epochCaptured>>

\* <Clock as MonotonicClock>::now
DoNow(t) ==
    /\ pc[t] = "locked" /\ op[t] = "now"
    /\ LET r == InnerNow(inner, mono) IN
        /\ Returned(t, "now", Ret("dur", r), None)
        /\ frozenRead' = IF inner.stop # None /\ frozenRead = None
                         THEN Some(r) ELSE frozenRead
        /\ prevNow' = Some([val |-> r, since |-> "none", at |-> Some(mono)])
        /\ prevRead' = prevNow
    /\ UNCHANGED <<mono, inner, poisoned, tmp, stopRet, resumeFloor,
                   epochCaptured>>

\* <Clock as MonotonicClock>::epoch
DoEpoch(t) ==
    /\ pc[t] = "locked" /\ op[t] = "epoch"
    /\ Returned(t, "epoch", Ret("epoch", InnerEpoch(inner)), None)
    /\ prevRead' = None
    /\ UNCHANGED <<mono, inner, poisoned, tmp, hist>>

\* <Clock as MonotonicClock>::is_ticking
DoIsTicking(t) ==
    /\ pc[t] = "locked" /\ op[t] = "is_ticking"
    /\ Returned(t, "is_ticking",
                Ret("bool", IF InnerIsTicking(inner) THEN 1 ELSE 0), None)
    /\ prevRead' = None
    /\ UNCHANGED <<mono, inner, poisoned, tmp, hist>>

\* MonotonicClock::time, first half: self.now() under its own read guard
DoTimeNow(t) ==
    /\ pc[t] = "locked" /\ op[t] = "time_now"
    /\ tmp' = [tmp EXCEPT ![t] = [now |-> InnerNow(inner, mono),
                                  epochThen |-> inner.epoch]]
    /\ pc' = [pc EXCEPT ![t] = "waiting"]
    /\ op' = [op EXCEPT ![t] = "time_epoch"]
    /\ Silent
    /\ UNCHANGED <<mono, inner, poisoned, hist>>

\* MonotonicClock::time, second half: self.epoch() under a second read guard
DoTimeEpoch(t) ==
    /\ pc[t] = "locked" /\ op[t] = "time_epoch"
    /\ Returned(t, "time",
                Ret("dur", TimeOf(tmp[t].now, InnerEpoch(inner))), None)
    /\ prevRead' = None
    /\ tmp' = [tmp EXCEPT ![t] = NoTmp]
    /\ UNCHANGED <<mono, inner, poisoned, hist>>

Next ==
    \/ Tick
    \/ \E t \in Owners : \E m \in Methods : Call(t, m)
    \/ \E t \in Owners : Acquire(t)
    \/ \E t \in Owners : DoStart(t)
    \/ \E t \in Owners : DoReset(t)
    \/ \E t \in Owners : DoStop(t)
    \/ \E t \in Owners : DoResume(t)
    \/ \E t \in Owners : DoNow(t)
    \/ \E t \in Owners : DoEpoch(t)
    \/ \E t \in Owners : DoIsTicking(t)
    \/ \E t \in Owners : DoTimeNow(t)
    \/ \E t \in Owners : DoTimeEpoch(t)

Spec == Init /\ [][Next]_vars

\* ---- properties ----------------------------------------------------------
\* lastRet, wallRead, before and prevRead describe the method that returned in
\* the step into the current state, so each property below reads as "whenever
\* this method returns in this situation, ...".

NowReturned == lastRet.op = "now" /\ lastRet.tag = "dur"

\* C1  Freeze-on-stop: every now() read of a clock that has been stopped, with
\* no resume(), reset() or start() since, returns the value of the first such
\* read, however far the monotonic source has advanced.
FreezeOnStop ==
    (NowReturned /\ frozenRead # None) => lastRet.val = frozenRead[1]

\* a second read of the stopped clock, later than the previous one
FreezeOnStopWitness ==
    /\ NowReturned /\ frozenRead # None /\ inner.stop # None
    /\ prevRead # None /\ prevRead[1].since = "none" /\ prevRead[1].at # None
    /\ prevRead[1].at[1] >= inner.stop[1]
    /\ prevRead[1].at[1] < mono

\* C2  stop() returns the time from the stored start instant to the recorded
\* stop instant, and every now() read while the clock stays stopped returns
\* the value that stop() returned.
StopReturnsElapsed ==
    /\ (lastRet.op = "stop" /\ lastRet.tag # "panic") =>
           /\ inner.stop # None
           /\ lastRet.tag = "some"
           /\ lastRet.val = inner.stop[1] - inner.start
    /\ (NowReturned /\ stopRet # None) => lastRet.val = stopRet[1].val

\* a read of a clock stopped at a non-zero elapsed time, after more time passed
StopReturnsElapsedWitness ==
    /\ NowReturned /\ stopRet # None /\ stopRet[1].val > 0
    /\ inner.stop # None /\ mono > inner.stop[1]

\* C3  Idempotent stop: a stop() that finds the clock stopped leaves the stop
\* instant where it is and returns what the stop() that stopped the clock
\* returned, whichever owner issues it.
IdempotentStop ==
    (lastRet.op = "stop" /\ before # None /\ before[1].stop # None) =>
        /\ inner.stop = before[1].stop
        /\ lastRet.tag = "some"
        /\ stopRet # None
        /\ lastRet.val = stopRet[1].val

\* the second stop() comes from the other owner, after time has passed
IdempotentStopWitness ==
    /\ lastRet.op = "stop" /\ before # None /\ before[1].stop # None
    /\ stopRet # None /\ stopRet[1].by # lastRet.by
    /\ mono > before[1].stop[1]
    /\ lastRet.val > 0

\* C4  Resume includes the paused interval: after a resume() of a clock
\* stopped at E and paused for P, a now() read returns at least E + P.
ResumeIncludesPause ==
    (NowReturned /\ resumeFloor # None) =>
        lastRet.val >= resumeFloor[1].e + resumeFloor[1].p

\* E and P both non-zero
ResumeIncludesPauseWitness ==
    /\ NowReturned /\ resumeFloor # None
    /\ resumeFloor[1].e > 0 /\ resumeFloor[1].p > 0
    /\ lastRet.val > resumeFloor[1].e

\* C5  Reset clears both axes: a reset() that returns leaves the clock
\* running, its start instant at the current monotonic instant (a now() read
\* at that instant is zero), and its epoch at the wall-clock value it read.
ResetClearsBoth ==
    (lastRet.op = "reset" /\ lastRet.tag = "unit") =>
        /\ inner.stop = None
        /\ inner.start = mono
        /\ InnerNow(inner, mono) = 0
        /\ wallRead # None
        /\ inner.epoch = wallRead[1]

\* reset() of a stopped clock with elapsed time, and a different wall reading
ResetClearsBothWitness ==
    /\ lastRet.op = "reset" /\ lastRet.tag = "unit" /\ before # None
    /\ before[1].stop # None
    /\ before[1].start < mono
    /\ before[1].epoch # inner.epoch

\* a now() read of a running clock that follows another with no mutating
\* call in between
SuccessiveRunningReads ==
    /\ NowReturned /\ inner.stop = None
    /\ prevRead # None /\ prevRead[1].since = "none"

\* C6  Monotonicity: of two successive now() reads of a running clock, with no
\* mutating call between them, the second is at least the first.
Monotonicity ==
    SuccessiveRunningReads => lastRet.val >= prevRead[1].val

\* the second read is later and larger
MonotonicityWitness ==
    /\ SuccessiveRunningReads
    /\ prevRead[1].at # None /\ prevRead[1].at[1] < mono
    /\ lastRet.val > prevRead[1].val

\* C7  A now() read of a running clock returns the current monotonic instant
\* minus the stored start instant, so two such reads with no mutating call
\* between them differ by at least the monotonic time between them.
NowIsElapsed ==
    /\ (NowReturned /\ inner.stop = None) => lastRet.val = mono - inner.start
    /\ SuccessiveRunningReads =>
           /\ prevRead[1].at # None
           /\ lastRet.val - prevRead[1].val >= mono - prevRead[1].at[1]

\* the reads are one unit apart, on a clock whose start instant is not 0
NowIsElapsedWitness ==
    /\ SuccessiveRunningReads
    /\ inner.start > 0
    /\ prevRead[1].at # None /\ mono - prevRead[1].at[1] = 1

NoOpResume ==
    (lastRet.op = "resume" /\ before # None /\ before[1].stop = None) =>
        /\ lastRet.tag = "some" /\ lastRet.val = 0
        /\ inner = before[1]

\* resume() of a clock that has been running for a while
NoOpResumeWitness ==
    /\ lastRet.op = "resume" /\ before # None /\ before[1].stop = None
    /\ mono > inner.start

\* C10  start() leaves the clock running from the current monotonic instant,
\* whatever state it found, and leaves the epoch as it was.
StartRebases ==
    (lastRet.op = "start" /\ before # None) =>
        /\ inner.stop = None
        /\ inner.start = mono
        /\ InnerNow(inner, mono) = 0
        /\ inner.epoch = before[1].epoch

\* start() of a stopped clock that had elapsed time
StartRebasesWitness ==
    /\ lastRet.op = "start" /\ before # None
    /\ before[1].stop # None
    /\ before[1].stop[1] > before[1].start
    /\ mono > before[1].stop[1]

\* start() of a running clock that had elapsed time
StartRunningWitness ==
    /\ lastRet.op = "start" /\ before # None
    /\ before[1].stop = None
    /\ mono > before[1].start

\* C11  reset() is the only method that changes the epoch: the stored epoch is
\* always the wall reading captured by new() or by the last reset(), and that
\* is what epoch() returns, whatever other methods have run since.
EpochOnlyByReset ==
    /\ inner.epoch = epochCaptured
    /\ (lastRet.op = "epoch" /\ lastRet.tag = "epoch") =>
           lastRet.val = epochCaptured

\* epoch() of a clock that was restarted and stopped since the capture of a
\* non-zero epoch
EpochOnlyByResetWitness ==
    /\ lastRet.op = "epoch" /\ lastRet.tag = "epoch"
    /\ epochCaptured > 0
    /\ inner.stop # None /\ inner.start > 0
    /\ prevNow # None /\ prevNow[1].since = "paused"

\* C12  No torn reads: the value time() returns is now() + epoch of one state
\* of the clock, the one its now() half read or the one its epoch() half read.
TimeReadsOneState ==
    (lastRet.op = "time" /\ lastRet.tag = "dur" /\ snap # None) =>
        \/ lastRet.val = snap[1].now + snap[1].epochThen
        \/ lastRet.val = InnerNow(inner, mono) + inner.epoch

\* C13  Mutators hold the lock exclusively and readers share it: two owners
\* are inside the clock state together only when both are readers, and the
\* clock state changes only in the step of a mutator that is alone inside it,
\* so the mutations happen one whole transition after another.
P_LockDiscipline ==
    /\ [](\A t, u \in Owners :
            (t # u /\ pc[t] = "locked" /\ pc[u] = "locked") =>
                (op[t] \in Readers /\ op[u] \in Readers))
    /\ [][(inner' # inner \/ poisoned' # poisoned) =>
            \E t \in Owners :
                /\ pc[t] = "locked" /\ op[t] \in Mutators /\ pc'[t] = "idle"
                /\ \A u \in Owners \ {t} : pc[u] # "locked" /\ pc'[u] = pc[u]]_vars

\* a mutator is inside while the other owner waits in read()
LockDisciplineWitness ==
    \E t, u \in Owners :
        /\ t # u
        /\ pc[t] = "locked" /\ op[t] \in Mutators
        /\ pc[u] = "waiting" /\ op[u] \in Readers

\* ---- fair scheduling -------------------------------------------------------
\* The body of a method, from the guard it holds to its return.
Body(t) ==
    \/ DoStart(t) \/ DoReset(t) \/ DoStop(t) \/ DoResume(t)
    \/ DoNow(t) \/ DoEpoch(t) \/ DoIsTicking(t)
    \/ DoTimeNow(t) \/ DoTimeEpoch(t)

\* The steps of the owners.  The monotonic source is held still here: no
\* guard of Call, Acquire or a body reads it, so which calls can proceed does
\* not depend on it.
SchedNext ==
    \/ \E t \in Owners : \E m \in Methods : Call(t, m)
    \/ \E t \in Owners : Acquire(t)
    \/ \E t \in Owners : Body(t)

\* Every owner inside the lock keeps running until it returns, and an owner
\* that can take the lock again and again eventually gets it.
FairSpec ==
    /\ Init /\ [][SchedNext]_vars
    /\ \A t \in Owners : WF_vars(Body(t))
    /\ \A t \in Owners : SF_vars(Acquire(t))

StopResumeAlwaysSome ==
    (lastRet.op \in {"stop", "resume"}) => lastRet.tag = "some"

\* C15 as amended: stop() and resume() never return None; they return
\* Some(duration) unless the lock is poisoned, and then they unwind.
StopResumeNeverNone ==
    (lastRet.op \in {"stop", "resume"}) =>
        \/ lastRet.tag = "some"
        \/ lastRet.tag = "panic" /\ poisoned

\* resume() of a clock that was paused for a while
StopResumeNeverNoneWitness ==
    /\ lastRet.op = "resume" /\ lastRet.tag = "some" /\ lastRet.val > 0
    /\ before # None /\ before[1].stop # None

\* C16  The stop instant, when present, is not before the start instant, and
\* no stop() or now() returns the result of an underflowing subtraction.
StopNotBeforeStart ==
    /\ inner.stop # None => inner.stop[1] >= inner.start
    /\ (lastRet.op \in {"stop", "now"} /\ lastRet.tag \in {"some", "dur"}) =>
           lastRet.val # Underflow

\* stop() of a clock that was rebased after construction
StopNotBeforeStartWitness ==
    /\ lastRet.op = "stop" /\ lastRet.tag = "some"
    /\ inner.stop # None
    /\ inner.start > 0
    /\ inner.stop[1] > inner.start

\* C17  A new clock is running, and is_ticking() returns true exactly when the
\* stop instant is absent: false from a stop() until the next start(),
\* resume() or reset(), each of which leaves the clock running.
TickingIffRunning ==
    /\ (wallRead # None /\ lastRet.op = NoOp) => inner.stop = None
    /\ (lastRet.op = "is_ticking" /\ lastRet.tag = "bool") =>
           /\ (lastRet.val = 1) <=> (inner.stop = None)
           /\ (lastRet.val = 0) <=> (stopRet # None)
    /\ (lastRet.op = "stop" /\ lastRet.tag = "some") => inner.stop # None
    /\ (lastRet.op \in {"start", "resume", "reset"}
            /\ lastRet.tag \in {"unit", "some"}) => inner.stop = None

\* is_ticking() returns false for a stopped clock
TickingIffRunningWitness ==
    /\ lastRet.op = "is_ticking" /\ lastRet.tag = "bool" /\ lastRet.val = 0
    /\ stopRet # None /\ inner.stop # None

\* C18  A resume() that finds the clock stopped clears the stop marker, leaves
\* start and epoch as they were, and returns the current monotonic instant
\* minus the recorded stop instant.
ResumeClearsStopOnly ==
    (lastRet.op = "resume" /\ before # None /\ before[1].stop # None) =>
        /\ inner = [before[1] EXCEPT !.stop = None]
        /\ lastRet.tag = "some"
        /\ lastRet.val = mono - before[1].stop[1]

\* the clock had run for a while before it was stopped, and was paused for a
\* while
ResumeClearsStopOnlyWitness ==
    /\ lastRet.op = "resume" /\ before # None /\ before[1].stop # None
    /\ before[1].stop[1] > before[1].start
    /\ mono > before[1].stop[1]

\* ---- Epoch arithmetic -------------------------------------------------------
clockVars == <<mono, inner, poisoned, pc, op, tmp, lastRet, wallRead, before,
               prevRead, snap, hist>>

\* Any Epoch: Epoch::from(duration)
EpochInit ==
    /\ ClockInit
    /\ epochVal \in Durations
    /\ epRet = NoEpRet

\* epoch + rhs, epoch - rhs: the Epoch is passed by value and stays
EpochBinary(o, rhs) ==
    /\ o \in (AddOps \cup SubOps) \ AssignOps
    /\ LET r == EpochApply(o, epochVal, rhs) IN
        epRet' = [op |-> o, lhs |-> epochVal, rhs |-> rhs,
                  tag |-> r.tag, val |-> r.val]
    /\ UNCHANGED <<epochVal, clockVars>>

\* epoch += rhs, epoch -= rhs: a panic leaves the Epoch unassigned
EpochAssign(o, rhs) ==
    /\ o \in AssignOps
    /\ LET r == EpochApply(o, epochVal, rhs) IN
        /\ epRet' = [op |-> o, lhs |-> epochVal, rhs |-> rhs,
                     tag |-> r.tag, val |-> r.val]
        /\ epochVal' = IF r.tag = "panic" THEN epochVal ELSE r.val
    /\ UNCHANGED clockVars

EpochNext ==
    \/ \E o \in AddOps \cup SubOps : \E rhs \in Durations : EpochBinary(o, rhs)
    \/ \E o \in AddOps \cup SubOps : \E rhs \in Durations : EpochAssign(o, rhs)

EpochSpec == EpochInit /\ [][EpochNext]_vars

\* the outcome of a subtraction, as C19 states it
SubAsStated ==
    (epRet.op \in SubOps) =>
        /\ epRet.rhs <= epRet.lhs =>
               epRet.tag = "dur" /\ epRet.val = epRet.lhs - epRet.rhs
        /\ epRet.rhs > epRet.lhs => epRet.tag = "panic"

\* an in-place form stores its result, and stores nothing when it panics
AssignStores ==
    (epRet.op \in AssignOps) =>
        epochVal = IF epRet.tag = "panic" THEN epRet.lhs ELSE epRet.val

\* C19 as stated: additions yield the sum of the offsets; subtractions yield
\* the difference when the right operand is <= the left and panic otherwise.
EpochArithmeticAsStated ==
    /\ (epRet.op \in AddOps) =>
           epRet.tag = "dur" /\ epRet.val = epRet.lhs + epRet.rhs
    /\ SubAsStated
    /\ AssignStores

\* C19 as amended: additions yield the sum when it is at most Duration::MAX
\* and panic otherwise; subtractions as stated.
EpochArithmetic ==
    /\ (epRet.op \in AddOps) =>
           /\ epRet.lhs + epRet.rhs <= MaxDuration =>
                  epRet.tag = "dur" /\ epRet.val = epRet.lhs + epRet.rhs
           /\ epRet.lhs + epRet.rhs > MaxDuration => epRet.tag = "panic"
    /\ SubAsStated
    /\ AssignStores

\* an in-place subtraction of a larger operand panics and leaves the Epoch
EpochArithmeticWitness ==
    /\ epRet.op = "sub_assign" /\ epRet.rhs > epRet.lhs /\ epRet.lhs > 0
    /\ epRet.tag = "panic" /\ epochVal = epRet.lhs

\* C20  A reset() that reads a wall clock before UNIX_EPOCH unwinds without
\* changing start, stop or epoch and poisons the lock, nothing else poisons
\* it, and from then on the clock state never changes and every method of
\* every owner unwinds.
P_FailedResetPoisons ==
    [][/\ (lastRet'.op = "reset" /\ wallRead' # None /\ wallRead'[1] < 0) =>
              (poisoned' /\ lastRet'.tag = "panic" /\ inner' = inner)
       /\ (poisoned' /\ ~poisoned) =>
              /\ lastRet'.op = "reset" /\ lastRet'.tag = "panic"
              /\ wallRead' # None /\ wallRead'[1] < 0
              /\ inner' = inner
       /\ poisoned =>
              /\ poisoned'
              /\ inner' = inner
              /\ lastRet'.op # NoOp => lastRet'.tag = "panic"]_vars

\* after the failed reset of a stopped clock, a later time() unwinds
FailedResetPoisonsWitness ==
    /\ poisoned
    /\ lastRet.op = "time" /\ lastRet.tag = "panic"
    /\ inner.stop # None /\ inner.stop[1] > inner.start

TypeOK ==
    /\ mono \in 0..MaxTime
    /\ inner.start \in 0..MaxTime
====
